---- MODULE Spec2Model ----
(***************************************************************************)
(* Year-grid layout and event placement of the planner                     *)
(* (yearPage.model.ts: buildYearWeeks, buildWeekRenderData) together with  *)
(* the part of YearPage.tsx that decides which year is laid out.           *)
(*                                                                         *)
(* A JavaScript Date is an instant.  Instants are counted in whole hours   *)
(* since local midnight of 0001-01-01 (proleptic Gregorian calendar, the   *)
(* calendar of Date); a local calendar day is numbered by days since       *)
(* 0001-01-01, which is a Monday.  The local time zone is part of the      *)
(* environment: it may have one daylight-saving transition, on local day   *)
(* dstDay, which makes that day DAY_MS + dstDelta hours long.              *)
(***************************************************************************)
EXTENDS Integers, Sequences, FiniteSets, TLC

VARIABLES dstDay, dstDelta, year, weeks, week, events, allWeekBars, out, pc,
          payload, forceEventsError, request, response,
          hook, viewModel, auth, history

vars == <<dstDay, dstDelta, year, weeks, week, events, allWeekBars, out, pc,
          payload, forceEventsError, request, response,
          hook, viewModel, auth, history>>

\* the state of the clients: the web useYearEvents hook, the PlannerViewModel
\* of the Swift app, the browser's storage for Google OAuth, and what has
\* happened in the browser session so far
clientVars == <<hook, viewModel, auth, history>>

\* the state of the event sources: what was fetched, and the backend's exchange
sourceVars == <<payload, forceEventsError, request, response, hook, viewModel, auth, history>>

(***************************************************************************)
(* Program constants                                                       *)
(***************************************************************************)
\* const DAY_MS = 24 * 60 * 60 * 1000, here in hours
DAY_MS == 24

MAX_VISIBLE_BARS == 3

\* isValidYear: value >= 1 && value <= 9999
MinYear == 1

MaxYear == 9999

(***************************************************************************)
(* Bounds of the model                                                     *)
(***************************************************************************)
\* the longest event list handed to buildWeekRenderData
MaxEvents == 4

\* the year shown when the route names no valid year (now.getFullYear())
CurrentYear == 2022

(***************************************************************************)
(* The calendar of Date: local date fields of a day number and back        *)
(***************************************************************************)
IsLeapYear(y) == (y % 4 = 0 /\ y % 100 # 0) \/ y % 400 = 0

DaysBeforeYear(y) == 365 * (y - 1) + ((y - 1) \div 4) - ((y - 1) \div 100) + ((y - 1) \div 400)

\* days of the year before the first of month m (1..12)
DaysBeforeMonth(y, m) ==
    <<0, 31, 59, 90, 120, 151, 181, 212, 243, 273, 304, 334>>[m]
        + (IF m > 2 /\ IsLeapYear(y) THEN 1 ELSE 0)

\* day number of the calendar date y-m-d
DaysFromCivil(y, m, d) == DaysBeforeYear(y) + DaysBeforeMonth(y, m) + d - 1

\* the calendar date <<y, m, d>> of a day number: the 400-year era and the day
\* of the era, the year of the era, the day of the year counted from March 1,
\* the month counted from March
CivilOfMonth(y, mp, d) ==
    <<y + (IF mp < 10 THEN 0 ELSE 1), IF mp < 10 THEN mp + 3 ELSE mp - 9, d>>

CivilOfDayOfYear(y, doy, mp) == CivilOfMonth(y, mp, doy - ((153 * mp + 2) \div 5) + 1)

CivilOfYearOfEra(era, doe, yoe) ==
    CivilOfDayOfYear(yoe + era * 400,
                     doe - (365 * yoe + (yoe \div 4) - (yoe \div 100)),
                     (5 * (doe - (365 * yoe + (yoe \div 4) - (yoe \div 100))) + 2) \div 153)

CivilOfEra(era, doe) ==
    CivilOfYearOfEra(era, doe,
                     (doe - (doe \div 1460) + (doe \div 36524) - (doe \div 146096)) \div 365)

CivilFromDays(n) == CivilOfEra((n + 306) \div 146097, (n + 306) % 146097)

(***************************************************************************)
(* The local time zone                                                     *)
(***************************************************************************)
\* the instant at which local day n begins
MidnightOf(n) == n * DAY_MS + (IF n > dstDay THEN dstDelta ELSE 0)

\* the local day an instant falls on
LocalDayOf(t) ==
    LET c == t \div DAY_MS
    IN CHOOSE n \in (c - 1)..(c + 1) : MidnightOf(n) <= t /\ t < MidnightOf(n + 1)

\* 0 = Sunday, as Date.prototype.getDay
getDay(date) == (LocalDayOf(date) + 1) % 7

\* new Date(year, monthIndex, day): local midnight of that date.  The Date
\* constructor reads a year from 0 to 99 as 1900 + year.
NewDate(y, monthIndex, d) ==
    LET fullYear == IF y >= 0 /\ y <= 99 THEN 1900 + y ELSE y
    IN MidnightOf(DaysFromCivil(fullYear, monthIndex + 1, d))

(***************************************************************************)
(* yearPage.model.ts                                                       *)
(***************************************************************************)
\* setDate(getDate() + days): the same time of day, days local days on
addDays(date, days) ==
    LET n == LocalDayOf(date)
    IN MidnightOf(n + days) + (date - MidnightOf(n))

\* new Date(fields.year, fields.month - 1, fields.day)
NewDateOfFields(fields) == NewDate(fields[1], fields[2] - 1, fields[3])

\* new Date(date.getFullYear(), date.getMonth(), date.getDate())
startOfDay(date) == NewDateOfFields(CivilFromDays(LocalDayOf(date)))

startOfWeekMonday(date) ==
    LET dayIndex == (getDay(date) + 6) % 7
    IN addDays(date, -dayIndex)

endOfWeekMonday(date) ==
    LET dayIndex == (getDay(date) + 6) % 7
    IN addDays(date, 6 - dayIndex)

isValidYear(value) == value \in Int /\ value >= MinYear /\ value <= MaxYear

\* the date key as the fields it prints: getFullYear(), then getMonth() + 1 and
\* getDate() on two digits
formatDateKey(date) == CivilFromDays(LocalDayOf(date))

RECURSIVE YearWeeksFrom(_, _)
YearWeeksFrom(cursor, end) ==
    IF cursor <= end
    THEN <<[dayOffset \in 1..7 |-> addDays(cursor, dayOffset - 1)]>>
             \o YearWeeksFrom(addDays(cursor, 7), end)
    ELSE <<>>

buildYearWeeks(y) ==
    LET start == startOfWeekMonday(NewDate(y, 0, 1))
        end == endOfWeekMonday(NewDate(y, 11, 31))
    IN YearWeeksFrom(start, end)

daysBetween(start, end) == (startOfDay(end) - startOfDay(start)) \div DAY_MS

intersectsRange(startA, endA, startB, endB) == startA <= endB /\ endA >= startB

\* a comparison that takes an event of exactly one day for a short one
isShortEventUpToADay(event) == event.end - event.start <= DAY_MS

isShortEvent(event) == event.end - event.start < DAY_MS

(***************************************************************************)
(* Array.prototype.sort is stable: an element goes behind every element    *)
(* the comparator does not put after it.                                   *)
(***************************************************************************)
\* sortEventsByTime's comparator; the events of the model share one summary
compareEventsByTime(a, b) ==
    IF a.start # b.start THEN a.start - b.start
    ELSE IF a.end # b.end THEN a.end - b.end
    ELSE 0

\* a comparator that puts the shorter span first among equal startIdx
comparePlacementsShortestFirst(a, b) ==
    IF a.startIdx # b.startIdx THEN a.startIdx - b.startIdx
    ELSE IF a.endIdx - a.startIdx # b.endIdx - b.startIdx
         THEN (a.endIdx - a.startIdx) - (b.endIdx - b.startIdx)
         ELSE a.event.start - b.event.start

\* the comparator of placements.sort
comparePlacements(a, b) ==
    IF a.startIdx # b.startIdx THEN a.startIdx - b.startIdx
    ELSE IF a.endIdx - a.startIdx # b.endIdx - b.startIdx
         THEN (b.endIdx - b.startIdx) - (a.endIdx - a.startIdx)
         ELSE a.event.start - b.event.start

\* a comparator that puts the later start first
compareShortEventsLatestFirst(a, b) == b.start - a.start

\* the comparator of shortEventsByDateKey[key].sort
compareShortEvents(a, b) == a.start - b.start

\* the comparator of the final weekBars sort
compareWeekBars(a, b) ==
    IF a.lane # b.lane THEN a.lane - b.lane
    ELSE IF a.startIdx # b.startIdx THEN a.startIdx - b.startIdx
    ELSE a.event.start - b.event.start

Compare(kind, a, b) ==
    CASE kind = "eventsByTime" -> compareEventsByTime(a, b)
      [] kind = "placements" -> comparePlacements(a, b)
      [] kind = "shortEvents" -> compareShortEvents(a, b)
      [] kind = "weekBars" -> compareWeekBars(a, b)

InsertSorted(kind, s, x) ==
    LET k == Cardinality({i \in 1..Len(s) : Compare(kind, s[i], x) <= 0})
    IN SubSeq(s, 1, k) \o <<x>> \o SubSeq(s, k + 1, Len(s))

RECURSIVE StableSort(_, _)
StableSort(kind, s) ==
    IF s = <<>> THEN <<>>
    ELSE InsertSorted(kind, StableSort(kind, SubSeq(s, 1, Len(s) - 1)), s[Len(s)])

sortEventsByTime(evs) == StableSort("eventsByTime", evs)

(***************************************************************************)
(* buildWeekRenderData                                                     *)
(***************************************************************************)
\* the loop going on to the placement after it has listed a short event
HasPlacementAlsoShort(event, weekStart, weekEnd, eventStartDay, eventEndDay) ==
    intersectsRange(eventStartDay, eventEndDay, weekStart, weekEnd)

\* the event is pushed to placements: it is long and its days meet the week's
HasPlacement(event, weekStart, weekEnd, eventStartDay, eventEndDay) ==
    /\ ~isShortEvent(event)
    /\ intersectsRange(eventStartDay, eventEndDay, weekStart, weekEnd)

\* a placement that takes an event ending on the week's last day to go on
PlacementFromEndingSunday(event, weekStart, weekEnd, eventStartDay, eventEndDay, fromStart, fromEnd) ==
    [event |-> event,
     startIdx |-> IF fromStart > 0 THEN fromStart ELSE 0,
     endIdx |-> IF fromEnd < 6 THEN fromEnd ELSE 6,
     continuesFromPreviousWeek |-> eventStartDay < weekStart,
     continuesToNextWeek |-> eventEndDay >= weekEnd]

PlacementFrom(event, weekStart, weekEnd, eventStartDay, eventEndDay, fromStart, fromEnd) ==
    [event |-> event,
     startIdx |-> IF fromStart > 0 THEN fromStart ELSE 0,
     endIdx |-> IF fromEnd < 6 THEN fromEnd ELSE 6,
     continuesFromPreviousWeek |-> eventStartDay < weekStart,
     continuesToNextWeek |-> eventEndDay > weekEnd]

\* the placement pushed for an event, as a list of one, or nothing
PlacementOfDays(event, weekStart, weekEnd, eventStartDay, eventEndDay) ==
    IF HasPlacement(event, weekStart, weekEnd, eventStartDay, eventEndDay)
    THEN <<PlacementFrom(event, weekStart, weekEnd, eventStartDay, eventEndDay,
                         daysBetween(weekStart, eventStartDay),
                         daysBetween(weekStart, eventEndDay))>>
    ELSE <<>>

PlacementOf(event, weekStart, weekEnd) ==
    PlacementOfDays(event, weekStart, weekEnd, startOfDay(event.start), startOfDay(event.end))

RECURSIVE PlacementsFrom(_, _, _, _)
PlacementsFrom(evs, n, weekStart, weekEnd) ==
    IF n > Len(evs) THEN <<>>
    ELSE PlacementOf(evs[n], weekStart, weekEnd) \o PlacementsFrom(evs, n + 1, weekStart, weekEnd)

\* placements, in the order of the events, before placements.sort
Placements(wk, evs) == PlacementsFrom(evs, 1, startOfDay(wk[1]), startOfDay(wk[7]))

\* a first fit that takes a lane whose last bar ends on startIdx itself
FirstFreeLaneTouching(laneEndIndexes, startIdx) ==
    LET free == {lane \in 0..(Len(laneEndIndexes) - 1) : startIdx >= laneEndIndexes[lane + 1]}
    IN IF free = {} THEN Len(laneEndIndexes)
       ELSE CHOOSE lane \in free : \A other \in free : lane <= other

\* a first fit that wants a free day between two bars of a lane
FirstFreeLaneWithGap(laneEndIndexes, startIdx) ==
    LET free == {lane \in 0..(Len(laneEndIndexes) - 1) : startIdx > laneEndIndexes[lane + 1] + 1}
    IN IF free = {} THEN Len(laneEndIndexes)
       ELSE CHOOSE lane \in free : \A other \in free : lane <= other

\* the first lane whose last bar ends before startIdx, or the number of lanes
FirstFreeLane(laneEndIndexes, startIdx) ==
    LET free == {lane \in 0..(Len(laneEndIndexes) - 1) : startIdx > laneEndIndexes[lane + 1]}
    IN IF free = {} THEN Len(laneEndIndexes)
       ELSE CHOOSE lane \in free : \A other \in free : lane <= other

RECURSIVE AssignLanes(_, _, _, _)
AssignLanes(placements, i, laneEndIndexes, bars) ==
    IF i > Len(placements) THEN bars
    ELSE LET placement == placements[i]
             lane == FirstFreeLane(laneEndIndexes, placement.startIdx)
             opened == IF lane = Len(laneEndIndexes)
                       THEN Append(laneEndIndexes, -1) ELSE laneEndIndexes
             bar == [event |-> placement.event,
                     lane |-> lane,
                     startIdx |-> placement.startIdx,
                     endIdx |-> placement.endIdx,
                     continuesFromPreviousWeek |-> placement.continuesFromPreviousWeek,
                     continuesToNextWeek |-> placement.continuesToNextWeek]
         IN AssignLanes(placements, i + 1,
                        [opened EXCEPT ![lane + 1] = placement.endIdx],
                        Append(bars, bar))

\* allWeekBars: every placement with its lane, in the order of assignment
LaneAssignment(wk, evs) ==
    AssignLanes(StableSort("placements", Placements(wk, evs)), 1, <<>>, <<>>)

\* the bars that have begun by dayIdx, ended or not
ActiveBarsNeverEnding(bars, dayIdx) ==
    SelectSeq(bars, LAMBDA bar : bar.startIdx <= dayIdx)

\* the bars of a list that cover day index dayIdx
ActiveBars(bars, dayIdx) ==
    SelectSeq(bars, LAMBDA bar : bar.startIdx <= dayIdx /\ bar.endIdx >= dayIdx)

\* Object.fromEntries(weekKeys.map((key) => [key, value])): one entry per key
WeekKeys(wk) == [i \in 1..7 |-> formatDateKey(wk[i])]

\* the key a short event is pushed under, if the week has it; no key for a long one
KeyOfShortEvent(event) == IF isShortEvent(event) THEN formatDateKey(event.start) ELSE <<>>

\* the short events pushed under each key of the week, in the order of the
\* events, then sorted by start
ShortEventsOfKeys(weekKeys, evs, keyOf) ==
    [key \in {weekKeys[i] : i \in 1..7} |->
        StableSort("shortEvents",
                   LET pushed == {n \in 1..Len(evs) : keyOf[n] = key}
                   IN [k \in 1..Cardinality(pushed) |->
                          evs[CHOOSE n \in pushed : Cardinality({h \in pushed : h < n}) = k - 1]])]

ShortEventsByDateKey(weekKeys, evs) ==
    CHOOSE lists \in {ShortEventsOfKeys(weekKeys, evs, keyOf) :
                        keyOf \in {[n \in 1..Len(evs) |-> KeyOfShortEvent(evs[n])]}} : TRUE

\* activeBarsByDateKey: for dayIdx = 0..6 in turn, the entry of weekKeys[dayIdx]
\* is set to the number of bars that cover dayIdx
ActiveBarsByDateKey(weekKeys, bars) ==
    LET counts == [dayIdx \in 0..6 |-> Len(ActiveBars(bars, dayIdx))]
    IN [key \in {weekKeys[i] : i \in 1..7} |->
           counts[(CHOOSE i \in 1..7 :
                     weekKeys[i] = key /\ \A j \in (i + 1)..7 : weekKeys[j] # key) - 1]]

OverflowBarsByDateKey(active) ==
    [key \in DOMAIN active |->
        IF active[key] - MAX_VISIBLE_BARS > 0 THEN active[key] - MAX_VISIBLE_BARS ELSE 0]

\* weekBars: the bars of the visible lanes, sorted by lane, startIdx, start
VisibleBars(bars) ==
    StableSort("weekBars", SelectSeq(bars, LAMBDA bar : bar.lane < MAX_VISIBLE_BARS))

\* the value returned, given allWeekBars
RenderData(weekKeys, evs, bars, active) ==
    [weekBars |-> VisibleBars(bars),
     shortEventsByDateKey |-> ShortEventsByDateKey(weekKeys, evs),
     overflowBarsByDateKey |-> OverflowBarsByDateKey(active),
     activeBarsByDateKey |-> active]

\* the call: its local allWeekBars and the value it returns
WeekLayout(wk, evs) ==
    CHOOSE frame \in {[allWeekBars |-> bars, out |-> RenderData(weekKeys, evs, bars, active)] :
                        <<weekKeys, bars, active>> \in
                            {<<k, b, ActiveBarsByDateKey(k, b)>> :
                                k \in {WeekKeys(wk)}, b \in {LaneAssignment(wk, evs)}}} : TRUE

buildWeekRenderData(wk, evs) == WeekLayout(wk, evs).out

(***************************************************************************)
(* The environment: the time zones and the event lists that are tried      *)
(***************************************************************************)
\* Monday 2022-03-21, the first day of the week that is rendered
RefMonday == DaysFromCivil(CurrentYear, 3, 21)

\* no transition, a 23-hour Tuesday, a 25-hour Tuesday
TimeZones == {<<RefMonday + 1, delta>> : delta \in {-1, 0, 1}}

\* hours from Monday 00:00 at which an event starts, and how long it lasts
StartHours == {-60, 0, 24, 60}

Durations == {12, 24, 48, 156}

EventShapes ==
    {<<RefMonday * DAY_MS + s, RefMonday * DAY_MS + s + d>> : s \in StartHours, d \in Durations}

ShapeBefore(a, b) == a[1] < b[1] \/ (a[1] = b[1] /\ a[2] <= b[2])

\* the lists of at most n shapes, each list in the order of start, then end
RECURSIVE ShapeLists(_)
ShapeLists(n) ==
    IF n = 0 THEN {<<>>}
    ELSE LET shorter == ShapeLists(n - 1)
         IN shorter \cup
            UNION {{Append(l, sh) : sh \in {x \in EventShapes : l = <<>> \/ ShapeBefore(l[Len(l)], x)}}
                   : l \in {p \in shorter : Len(p) = n - 1}}

\* the events of a list of shapes; the id is the position in the payload
EventsOf(l) == [i \in 1..Len(l) |-> [id |-> i, start |-> l[i][1], end |-> l[i][2]]]

\* the event lists tried, as useYearEvents hands them over: sorted by
\* sortEventsByTime
EventLists == {sortEventsByTime(EventsOf(l)) : l \in ShapeLists(MaxEvents)}

\* the week of buildYearWeeks(CurrentYear) that begins on RefMonday
RefWeek == [dayOffset \in 1..7 |-> addDays(NewDate(CurrentYear, 2, 21), dayOffset - 1)]

NoOutput ==
    [weekBars |-> <<>>, shortEventsByDateKey |-> <<>>,
     overflowBarsByDateKey |-> <<>>, activeBarsByDateKey |-> <<>>]

\* nothing fetched, no request made
\* useYearEvents before its first effect: the useState defaults, no fetch
NoHook ==
    [events |-> <<>>, loading |-> FALSE, fetchError |-> <<>>,
     session |-> <<>>, year |-> CurrentYear, fetches |-> {}, started |-> 0]

\* PlannerViewModel as constructed
NoViewModel ==
    [authStatus |-> "unauthenticated", session |-> <<>>, calendarYear |-> CurrentYear,
     events |-> <<>>, loadingEvents |-> FALSE, fetchError |-> <<>>,
     tasks |-> {}, started |-> 0]

\* a browser with nothing stored, no state token issued, no session ever
\* stored, and useGoogleAuth holding no session
NoAuth ==
    [session |-> <<>>, state |-> <<>>, promptMode |-> <<>>, error |-> <<>>,
     hasSignedIn |-> FALSE, silentAttempted |-> FALSE, issued |-> 0, stores |-> 0,
     active |-> FALSE]

\* nothing has happened: no successful sign-in since the last sign-out, no
\* silent redirect since the last successful sign-in, interactive sign-in
\* or sign-out of the browser session
NoHistory == [signedIn |-> FALSE, silentPending |-> FALSE]

NoClients ==
    /\ hook = NoHook
    /\ viewModel = NoViewModel
    /\ auth = NoAuth
    /\ history = NoHistory

NoSources ==
    /\ payload = <<>>
    /\ forceEventsError = FALSE
    /\ request = <<>>
    /\ response = <<>>
    /\ NoClients

(***************************************************************************)
(* YearPage.tsx: which year is laid out                                    *)
(***************************************************************************)
\* the years a route may name, valid or not
RouteYears == {0, 1, 50, 99, 100, CurrentYear, 9999, 10000}

InitYear ==
    /\ \E tz \in TimeZones : dstDay = tz[1] /\ dstDelta = tz[2]
    /\ year = CurrentYear
    /\ weeks = <<>>
    /\ week = <<>>
    /\ events = <<>>
    /\ allWeekBars = <<>>
    /\ out = NoOutput
    /\ NoSources
    /\ pc = "route"

\* the route's year taken as it is
calendarYearUnchecked(parsedYear) == parsedYear

\* calendarYear = hasValidYear ? parsedYear : currentYear
calendarYear(parsedYear) == IF isValidYear(parsedYear) THEN parsedYear ELSE CurrentYear

\* the page renders a valid year: weeks = buildYearWeeks(calendarYear)
RenderYear ==
    /\ pc = "route"
    /\ isValidYear(year)
    /\ weeks' = buildYearWeeks(calendarYear(year))
    /\ pc' = "rendered"
    /\ UNCHANGED <<dstDay, dstDelta, year, week, events, allWeekBars, out>>
    /\ UNCHANGED sourceVars

\* an invalid year: the hooks run with calendarYear = currentYear, then
\* <Navigate replace to={`/year/${currentYear}`} />
Redirect ==
    /\ pc = "route"
    /\ ~isValidYear(year)
    /\ year' = CurrentYear
    /\ weeks' = buildYearWeeks(calendarYear(year))
    /\ UNCHANGED <<dstDay, dstDelta, week, events, allWeekBars, out, pc>>
    /\ UNCHANGED sourceVars

\* the user opens /year/y
OpenRoute(y) ==
    /\ year' = y
    /\ weeks' = <<>>
    /\ pc' = "route"
    /\ UNCHANGED <<dstDay, dstDelta, week, events, allWeekBars, out>>
    /\ UNCHANGED sourceVars

\* the link to previousYear
PreviousYear ==
    /\ pc = "rendered"
    /\ year' = IF year > 1 THEN year - 1 ELSE 1
    /\ weeks' = <<>>
    /\ pc' = "route"
    /\ UNCHANGED <<dstDay, dstDelta, week, events, allWeekBars, out>>
    /\ UNCHANGED sourceVars

\* the link to nextYear
NextYear ==
    /\ pc = "rendered"
    /\ year' = IF year < 9999 THEN year + 1 ELSE 9999
    /\ weeks' = <<>>
    /\ pc' = "route"
    /\ UNCHANGED <<dstDay, dstDelta, week, events, allWeekBars, out>>
    /\ UNCHANGED sourceVars

\* the link to /year/currentYear
GoToCurrentYear ==
    /\ pc = "rendered"
    /\ year' = CurrentYear
    /\ weeks' = <<>>
    /\ pc' = "route"
    /\ UNCHANGED <<dstDay, dstDelta, week, events, allWeekBars, out>>
    /\ UNCHANGED sourceVars

NextYearPage ==
    \/ RenderYear
    \/ Redirect
    \/ \E y \in RouteYears : OpenRoute(y)
    \/ PreviousYear
    \/ NextYear
    \/ GoToCurrentYear

SpecYear == InitYear /\ [][NextYearPage]_vars

(***************************************************************************)
(* One week of the grid and one event list: buildWeekRenderData(week,      *)
(* events), called any number of times                                     *)
(***************************************************************************)
\* events.reverse() in place of a copy
EventsReversedInPlace(evs) == [i \in 1..Len(evs) |-> evs[Len(evs) + 1 - i]]

\* the long events spliced out of the list as they are placed
EventsWithoutPlaced(evs) == SelectSeq(evs, isShortEvent)

\* what the call leaves in its argument events: the list is only read
EventsAfterRender(evs) == evs

\* what the call leaves in its argument week: week.map and week[0], week[6]
\* only read it
WeekAfterRender(wk) == wk

Init ==
    /\ \E tz \in TimeZones : dstDay = tz[1] /\ dstDelta = tz[2]
    /\ year = CurrentYear
    /\ weeks = <<>>
    /\ week = RefWeek
    /\ events \in EventLists
    /\ allWeekBars = <<>>
    /\ out = NoOutput
    /\ NoSources
    /\ pc = "idle"

RenderWeek ==
    /\ \E frame \in {WeekLayout(week, events)} :
           /\ allWeekBars' = frame.allWeekBars
           /\ out' = frame.out
    /\ events' = EventsAfterRender(events)
    /\ week' = WeekAfterRender(week)
    /\ pc' = IF pc = "idle" THEN "done" ELSE "again"
    /\ UNCHANGED <<dstDay, dstDelta, year, weeks>>
    /\ UNCHANGED sourceVars

Next == RenderWeek

Spec == Init /\ [][Next]_vars

(***************************************************************************)
(* Properties of buildYearWeeks, under SpecYear                            *)
(***************************************************************************)
\* the local days of the k-th week laid out
WeekDays(k) == {LocalDayOf(weeks[k][i]) : i \in 1..7}

\* C2: for every valid year, each week begins 7 calendar days after the week
\* before it, and every date from Jan 1 to Dec 31 of that year is in exactly
\* one week.
C2_WeeksCoverTheYear ==
    pc = "rendered" =>
        /\ \A k \in 2..Len(weeks) : LocalDayOf(weeks[k][1]) = LocalDayOf(weeks[k - 1][1]) + 7
        /\ \A day \in DaysFromCivil(year, 1, 1)..DaysFromCivil(year, 12, 31) :
               Cardinality({k \in 1..Len(weeks) : day \in WeekDays(k)}) = 1

\* C3: for every valid year, every week is 7 consecutive calendar days from a
\* Monday; the first week begins on the Monday on or before Jan 1 of the year
\* and the last week ends on the Sunday on or after Dec 31 of the year.
C3_WeeksAreMondayToSunday ==
    pc = "rendered" =>
        /\ Len(weeks) >= 1
        /\ \A k \in 1..Len(weeks) :
               /\ LocalDayOf(weeks[k][1]) % 7 = 0
               /\ \A i \in 1..7 : LocalDayOf(weeks[k][i]) = LocalDayOf(weeks[k][1]) + i - 1
        /\ LocalDayOf(weeks[1][1]) <= DaysFromCivil(year, 1, 1)
        /\ DaysFromCivil(year, 1, 1) < LocalDayOf(weeks[1][1]) + 7
        /\ LocalDayOf(weeks[Len(weeks)][7]) >= DaysFromCivil(year, 12, 31)
        /\ DaysFromCivil(year, 12, 31) > LocalDayOf(weeks[Len(weeks)][7]) - 7

\* C14: through any route changes and previous / next / current year
\* navigation, the year handed to buildYearWeeks is a valid year: an invalid
\* route year is redirected to the current year and never laid out, the
\* previous year of 1 is 1 and the next year of 9999 is 9999.
C14_OnlyValidYearsAreLaidOut ==
    [][/\ isValidYear(calendarYear(year'))
       /\ pc' = "rendered" => isValidYear(year')
       /\ Redirect => (~isValidYear(year) /\ year' = CurrentYear /\ pc' # "rendered")
       /\ PreviousYear => (isValidYear(year') /\ (year = MinYear => year' = MinYear))
       /\ NextYear => (isValidYear(year') /\ (year = MaxYear => year' = MaxYear))
       /\ GoToCurrentYear => isValidYear(year')]_vars

\* year 9999 is laid out: the next-year link has been enabled at the bound
C14_Witness == pc = "rendered" /\ year = MaxYear /\ weeks # <<>>


(***************************************************************************)
(* Properties of buildWeekRenderData, under Spec                           *)
(***************************************************************************)
Rendered == pc # "idle"

BarIndexes == 1..Len(allWeekBars)

Covers(bar, dayIdx) == bar.startIdx <= dayIdx /\ dayIdx <= bar.endIdx

\* the assigned bars that cover a day index, as a set of positions
CoveringBars(dayIdx) == {b \in BarIndexes : Covers(allWeekBars[b], dayIdx)}

\* C1: no two bars of the week that have the same lane have intersecting day
\* ranges, the bars of lanes 3 and up included.
C1_NoOverlapInALane ==
    Rendered =>
        \A a, b \in BarIndexes :
            (a # b /\ allWeekBars[a].lane = allWeekBars[b].lane) =>
                (allWeekBars[a].endIdx < allWeekBars[b].startIdx
                    \/ allWeekBars[b].endIdx < allWeekBars[a].startIdx)

\* two bars have shared a lane while a third bar lay in a higher lane
C1_Witness ==
    /\ Rendered
    /\ \E a, b \in BarIndexes : a # b /\ allWeekBars[a].lane = allWeekBars[b].lane
    /\ \E c \in BarIndexes : allWeekBars[c].lane >= 1

\* C4: for every day of the week, activeBarsByDateKey is the number of all
\* assigned bars whose range contains the day's index, overflowBarsByDateKey
\* is max(0, that number - 3), and both maps have the week's 7 keys.
C4_ActiveAndOverflowCounts ==
    Rendered =>
        /\ Cardinality(DOMAIN out.activeBarsByDateKey) = 7
        /\ DOMAIN out.overflowBarsByDateKey = DOMAIN out.activeBarsByDateKey
        /\ \A i \in 1..7 :
               LET key == formatDateKey(week[i])
                   active == Cardinality(CoveringBars(i - 1))
               IN /\ key \in DOMAIN out.activeBarsByDateKey
                  /\ out.activeBarsByDateKey[key] = active
                  /\ out.overflowBarsByDateKey[key] =
                         (IF active > MAX_VISIBLE_BARS THEN active - MAX_VISIBLE_BARS ELSE 0)

\* a day with four bars and a day with fewer than three
C4_Witness ==
    /\ Rendered
    /\ \E i \in 1..7 : out.overflowBarsByDateKey[formatDateKey(week[i])] = 1
    /\ \E i \in 1..7 : out.activeBarsByDateKey[formatDateKey(week[i])] \in 1..2

\* C5: for every day of the week, overflowBarsByDateKey is the number of bars
\* active on that day that were dropped from weekBars (lane >= 3), so that the
\* bars of weekBars active on the day plus the overflow make up the active count.
C5_OverflowCountsTheHiddenBars ==
    Rendered =>
        \A i \in 1..7 :
            LET key == formatDateKey(week[i])
                hidden == {b \in CoveringBars(i - 1) : allWeekBars[b].lane >= MAX_VISIBLE_BARS}
                shown == {v \in 1..Len(out.weekBars) : Covers(out.weekBars[v], i - 1)}
            IN /\ out.overflowBarsByDateKey[key] = Cardinality(hidden)
               /\ Cardinality(shown) + out.overflowBarsByDateKey[key]
                      = out.activeBarsByDateKey[key]

BarsOf(event) == {b \in BarIndexes : allWeekBars[b].event.id = event.id}

\* the <<key, position>> pairs at which an event lies in shortEventsByDateKey
ShortEntriesOf(event) ==
    {kp \in UNION {{<<key, n>> : n \in 1..Len(out.shortEventsByDateKey[key])}
                   : key \in DOMAIN out.shortEventsByDateKey} :
        out.shortEventsByDateKey[kp[1]][kp[2]].id = event.id}

\* the local days of the week
DaysOfWeek == {LocalDayOf(week[i]) : i \in 1..7}

\* C7: an event is lane-assigned iff it is long and its days meet the week's;
\* it is in shortEventsByDateKey iff it is short and starts on a day of the
\* week; never both, and at most once in each.
C7_ShortLongPartition ==
    Rendered =>
        \A n \in 1..Len(events) :
            LET e == events[n]
                long == e.end - e.start >= DAY_MS
                meets == /\ LocalDayOf(e.start) <= LocalDayOf(week[7])
                         /\ LocalDayOf(e.end) >= LocalDayOf(week[1])
            IN /\ (BarsOf(e) # {}) <=> (long /\ meets)
               /\ (ShortEntriesOf(e) # {}) <=> (~long /\ LocalDayOf(e.start) \in DaysOfWeek)
               /\ ~(BarsOf(e) # {} /\ ShortEntriesOf(e) # {})
               /\ Cardinality(BarsOf(e)) <= 1
               /\ Cardinality(ShortEntriesOf(e)) <= 1

\* a bar, a listed short event, a long event and a short event outside the week
C7_Witness ==
    /\ Rendered
    /\ \E a, b, c, d \in 1..Len(events) :
           /\ BarsOf(events[a]) # {}
           /\ ShortEntriesOf(events[b]) # {}
           /\ ~isShortEvent(events[c]) /\ BarsOf(events[c]) = {}
           /\ isShortEvent(events[d]) /\ ShortEntriesOf(events[d]) = {}

\* C8: a long event has a placement iff eventStartDay <= weekEnd and
\* eventEndDay >= weekStart; then startIdx = max(0, days from the week's Monday
\* to eventStartDay), endIdx = min(6, days to eventEndDay), the continuation
\* flags say whether the event begins before or ends after the week, and
\* 0 <= startIdx <= endIdx <= 6.
C8_PlacementGeometry ==
    Rendered =>
        \A n \in 1..Len(events) :
            LET e == events[n]
                monday == LocalDayOf(week[1])
                sunday == LocalDayOf(week[7])
                fromStart == LocalDayOf(e.start) - monday
                fromEnd == LocalDayOf(e.end) - monday
            IN (e.end - e.start >= DAY_MS) =>
                   /\ (BarsOf(e) # {}) <=>
                          (LocalDayOf(e.start) <= sunday /\ LocalDayOf(e.end) >= monday)
                   /\ \A b \in BarsOf(e) :
                          /\ allWeekBars[b].startIdx = (IF fromStart > 0 THEN fromStart ELSE 0)
                          /\ allWeekBars[b].endIdx = (IF fromEnd < 6 THEN fromEnd ELSE 6)
                          /\ allWeekBars[b].continuesFromPreviousWeek = (LocalDayOf(e.start) < monday)
                          /\ allWeekBars[b].continuesToNextWeek = (LocalDayOf(e.end) > sunday)
                          /\ 0 <= allWeekBars[b].startIdx
                          /\ allWeekBars[b].startIdx <= allWeekBars[b].endIdx
                          /\ allWeekBars[b].endIdx <= 6

\* the largest number of bars active on one day of the week
MaxActive ==
    LET counts == {Cardinality(CoveringBars(d)) : d \in 0..6}
    IN CHOOSE c \in counts : \A other \in counts : other <= c

\* C9: the lanes used are exactly 0..max with none skipped, and their number
\* is the largest number of bars active on one day.
C9_LanesAreMinimal ==
    Rendered => {allWeekBars[b].lane : b \in BarIndexes} = 0..(MaxActive - 1)

\* more bars than lanes: a lane was used again, with two or more lanes in use
C9_Witness ==
    /\ Rendered
    /\ MaxActive >= 2
    /\ Len(allWeekBars) > MaxActive

Orderings(n) == {f \in [1..n -> 1..n] : \A i, j \in 1..n : f[i] = f[j] => i = j}

\* the lane each event id gets, as a set of <<id, lane>>
LanesById(bars) == {<<bars[b].event.id, bars[b].lane>> : b \in 1..Len(bars)}

\* C10: for any permutation of the event list, buildWeekRenderData assigns
\* every long event the same lane and returns the same weekBars.
C10_OrderOfEventsIrrelevant ==
    Rendered =>
        \A f \in Orderings(Len(events)) :
            LET permuted == [i \in 1..Len(events) |-> events[f[i]]]
            IN /\ LanesById(WeekLayout(week, permuted).allWeekBars) = LanesById(allWeekBars)
               /\ buildWeekRenderData(week, permuted).weekBars = out.weekBars

\* the week that follows wk in buildYearWeeks: cursor = addDays(cursor, 7)
WeekAfter(wk) == [dayOffset \in 1..7 |-> addDays(addDays(wk[1], 7), dayOffset - 1)]

\* C11: a long event that has bars in two consecutive weeks of the grid has
\* the same lane in both weeks, whatever other events are present.
C11_LaneStableAcrossWeeks ==
    Rendered =>
        \A following \in {WeekLayout(WeekAfter(week), events).allWeekBars} :
            \A a \in BarIndexes, b \in 1..Len(following) :
                allWeekBars[a].event.id = following[b].event.id =>
                    allWeekBars[a].lane = following[b].lane

\* C13: an event is short iff end - start is strictly less than 24 hours,
\* whatever its isAllDay; an event of exactly 24 hours is long; a short event
\* that crosses midnight is listed under its start day and under no other.
C13_ShortIsLessThanADay ==
    Rendered =>
        \A n \in 1..Len(events) :
            LET e == events[n]
                short == e.end - e.start < DAY_MS
            IN /\ \A flag \in BOOLEAN :
                      isShortEvent([id |-> e.id, start |-> e.start, end |-> e.end,
                                    isAllDay |-> flag]) = short
               /\ (e.end - e.start = DAY_MS) =>
                      /\ ShortEntriesOf(e) = {}
                      /\ (LocalDayOf(e.start) \in DaysOfWeek) => BarsOf(e) # {}
               /\ short => /\ BarsOf(e) = {}
                           /\ \A kp \in ShortEntriesOf(e) : kp[1] = formatDateKey(e.start)
                           /\ (LocalDayOf(e.start) \in DaysOfWeek) => ShortEntriesOf(e) # {}

\* an event of exactly 24 hours has a bar, and a short event that ends on the
\* day after it starts is listed
C13_Witness ==
    /\ Rendered
    /\ \E n \in 1..Len(events) : events[n].end - events[n].start = DAY_MS /\ BarsOf(events[n]) # {}
    /\ \E n \in 1..Len(events) :
           /\ isShortEvent(events[n])
           /\ LocalDayOf(events[n].end) = LocalDayOf(events[n].start) + 1
           /\ LocalDayOf(events[n].end) \in DaysOfWeek
           /\ ShortEntriesOf(events[n]) # {}


ALL_DAY_END_BACK == 1

\* the longest payload fetched
MaxPayload == 2

\* new Date(rawValue): the instant the string names, as a list of one, or
\* nothing for a Date whose getTime() is NaN
DateOfString(rawValue) == IF rawValue[1] = "iso" THEN <<rawValue[2]>> ELSE <<>>

\* new Date(`${date}T00:00:00`): local midnight of the day the string names
DateOfLocalMidnight(rawDate) == IF rawDate[1] = "date" THEN <<MidnightOf(rawDate[2])>> ELSE <<>>

toISOString(date) == <<"iso", date>>

parseDateTimeValue(rawValue) == DateOfString(rawValue)

\* the start and end dates mapGoogleEvent computes, each possibly null
GoogleDates(event) ==
    LET startField == event.start[1]
        endField == event.end[1]
        hasDateTime == Len(startField.dateTime) = 1 /\ Len(endField.dateTime) = 1
        hasDate == Len(startField.date) = 1 /\ Len(endField.date) = 1
        allDayEndExclusive == DateOfLocalMidnight(endField.date[1])
    IN IF hasDateTime
       THEN [hasDateTime |-> TRUE,
             startDate |-> parseDateTimeValue(startField.dateTime[1]),
             endDate |-> parseDateTimeValue(endField.dateTime[1])]
       ELSE IF hasDate
       THEN [hasDateTime |-> FALSE,
             startDate |-> DateOfLocalMidnight(startField.date[1]),
             endDate |-> IF Len(allDayEndExclusive) = 1
                         THEN <<allDayEndExclusive[1] - ALL_DAY_END_BACK>> ELSE <<>>]
       ELSE [hasDateTime |-> FALSE, startDate |-> <<>>, endDate |-> <<>>]

\* the ApiEvent of a Google event, as a list of one, or nothing for null
mapGoogleEvent(event) ==
    IF event.id = "" \/ Len(event.start) = 0 \/ Len(event.end) = 0 THEN <<>>
    ELSE LET dates == GoogleDates(event)
         IN IF Len(dates.startDate) = 0 \/ Len(dates.endDate) = 0
                \/ dates.endDate[1] < dates.startDate[1]
            THEN <<>>
            ELSE <<[id |-> event.id,
                    start |-> toISOString(dates.startDate[1]),
                    end |-> toISOString(dates.endDate[1]),
                    isAllDay |-> ~dates.hasDateTime]>>

\* getEventsForYear: the items that map to an ApiEvent, in their order
RECURSIVE getEventsForYear(_)
getEventsForYear(items) ==
    IF items = <<>> THEN <<>>
    ELSE mapGoogleEvent(Head(items)) \o getEventsForYear(Tail(items))

\* the CalendarEvent of an ApiEvent, as a list of one, or nothing for null
parseApiEvent(raw) ==
    LET start == DateOfString(raw.start)
        end == DateOfString(raw.end)
    IN IF Len(start) = 0 \/ Len(end) = 0 THEN <<>>
       ELSE <<[raw EXCEPT !.start = start[1], !.end = end[1]]>>

\* payload.map(parseApiEvent).filter((event) => event !== null)
RECURSIVE ParsedEvents(_)
ParsedEvents(rawEvents) ==
    IF rawEvents = <<>> THEN <<>>
    ELSE parseApiEvent(Head(rawEvents)) \o ParsedEvents(Tail(rawEvents))

\* Monday 2022-03-21 00:00 where no transition has happened yet
RefInstant == RefMonday * DAY_MS

Optional(values) == {<<>>} \cup {<<v>> : v \in values}

\* the start and end fields Google may send: a dateTime, a date, or neither
GoogleStartFields ==
    {[dateTime |-> dt, date |-> d] :
        dt \in Optional({<<"iso", RefInstant + 36>>, <<"text">>}),
        d \in Optional({<<"date", RefMonday + 1>>})}

GoogleEndFields ==
    {[dateTime |-> dt, date |-> d] :
        dt \in Optional({<<"iso", RefInstant + 12>>, <<"iso", RefInstant + 60>>}),
        d \in Optional({<<"date", RefMonday + 1>>, <<"date", RefMonday + 2>>, <<"text">>})}

GoogleItems ==
    {[id |-> "", start |-> <<[dateTime |-> <<<<"iso", RefInstant + 36>>>>, date |-> <<>>]>>,
      end |-> <<[dateTime |-> <<<<"iso", RefInstant + 60>>>>, date |-> <<>>]>>]}
    \cup {[id |-> "g", start |-> <<>>, end |-> <<>>]}
    \cup {[id |-> "g", start |-> <<s>>, end |-> <<e>>] :
             s \in GoogleStartFields, e \in GoogleEndFields}

\* what the planner API may send: any strings as start and end
ApiItems ==
    {[id |-> "a", start |-> s, end |-> e] :
        s \in {<<"iso", RefInstant + 36>>, <<"text">>},
        e \in {<<"iso", RefInstant + 12>>, <<"iso", RefInstant + 36>>,
               <<"iso", RefInstant + 60>>, <<"text">>}}

RECURSIVE ListsOf(_, _)
ListsOf(items, n) ==
    IF n = 0 THEN {<<>>}
    ELSE LET shorter == ListsOf(items, n - 1)
         IN shorter \cup {Append(l, x) : l \in {p \in shorter : Len(p) = n - 1}, x \in items}

InitSources ==
    /\ \E tz \in TimeZones : dstDay = tz[1] /\ dstDelta = tz[2]
    /\ year = CurrentYear
    /\ weeks = <<>>
    /\ week = RefWeek
    /\ events = <<>>
    /\ allWeekBars = <<>>
    /\ out = NoOutput
    /\ NoSources
    /\ pc = "loading"

\* useYearEvents over GoogleCalendarClient: the items of the response are
\* mapped, parsed and sorted
LoadGoogleEvents ==
    /\ \E items \in ListsOf(GoogleItems, MaxPayload) :
           /\ payload' = getEventsForYear(items)
           /\ events' = sortEventsByTime(ParsedEvents(getEventsForYear(items)))
    /\ pc' = "google"
    /\ UNCHANGED <<dstDay, dstDelta, year, weeks, week, allWeekBars, out>>
    /\ UNCHANGED <<forceEventsError, request, response>>
    /\ UNCHANGED clientVars

\* useYearEvents over PlannerApiClient: the response body is parsed and sorted
LoadApiEvents ==
    /\ \E body \in ListsOf(ApiItems, MaxPayload) :
           /\ payload' = body
           /\ events' = sortEventsByTime(ParsedEvents(body))
    /\ pc' = "api"
    /\ UNCHANGED <<dstDay, dstDelta, year, weeks, week, allWeekBars, out>>
    /\ UNCHANGED <<forceEventsError, request, response>>
    /\ UNCHANGED clientVars

NextSources == LoadGoogleEvents \/ LoadApiEvents

SpecSources == InitSources /\ [][NextSources]_vars

\* C12: every event handed to buildWeekRenderData has a start and an end
\* instant with end >= start, whether it came through mapGoogleEvent or
\* through parseApiEvent alone.
C12_EveryEventEndsAfterItStarts ==
    \A n \in 1..Len(events) :
        /\ events[n].start \in Int
        /\ events[n].end \in Int
        /\ events[n].end >= events[n].start

(***************************************************************************)
(* planner-back: GET /v1/events.  The backend's instants are counted in    *)
(* minutes from 2026-02-16T09:00Z, the base of seedEvents.  A query value  *)
(* is <<>> when it is empty or absent, <<"rfc3339", t>> when it is the     *)
(* RFC3339 form of instant t, and <<"text">> when it is anything else.     *)
(***************************************************************************)
\* seedEvents(): start and end of evt-1 .. evt-6
seedEvents ==
    <<[id |-> "evt-1", start |-> 0, end |-> 90],
      [id |-> "evt-2", start |-> 26 * 60, end |-> 27 * 60],
      [id |-> "evt-3", start |-> 25 * 60, end |-> (72 + 52) * 60],
      [id |-> "evt-4", start |-> 42 * 60, end |-> (92 + 52) * 60],
      [id |-> "evt-5", start |-> (9 * 24 - 1) * 60, end |-> (15 * 24 + 1) * 60],
      [id |-> "evt-6", start |-> (3 * 24 - 1) * 60, end |-> (5 * 24 + 1) * 60]>>

\* a parser that takes a value it cannot read for no value
parseOptionalTimeLenient(value) ==
    IF Len(value) = 2 /\ value[1] = "rfc3339" THEN [time |-> <<value[2]>>, err |-> FALSE]
    ELSE [time |-> <<>>, err |-> FALSE]

\* parseOptionalTime: (nil, nil) for "", (nil, err) for what time.Parse
\* refuses, (&parsed, nil) otherwise; the time as a list of none or one
parseOptionalTime(value) ==
    IF Len(value) = 0 THEN [time |-> <<>>, err |-> FALSE]
    ELSE IF value[1] = "rfc3339" THEN [time |-> <<value[2]>>, err |-> FALSE]
    ELSE [time |-> <<>>, err |-> TRUE]

\* a filter that keeps the events lying inside the range
filterEventsInside(evs, startFilter, endFilter) ==
    SelectSeq(evs, LAMBDA event :
        /\ (Len(startFilter) = 1 => event.start >= startFilter[1])
        /\ (Len(endFilter) = 1 => event.end <= endFilter[1]))

\* filterEvents: drops event.End.Before(*startFilter) and
\* event.Start.After(*endFilter), keeps the order
filterEvents(evs, startFilter, endFilter) ==
    IF Len(startFilter) = 0 /\ Len(endFilter) = 0 THEN evs
    ELSE SelectSeq(evs, LAMBDA event :
             /\ ~(Len(startFilter) = 1 /\ event.end < startFilter[1])
             /\ ~(Len(endFilter) = 1 /\ event.start > endFilter[1]))

\* writeProblem: c.JSON(status, ProblemDetails{...})
writeProblem(status, title, detail) ==
    [status |-> status, problem |-> <<[title |-> title, detail |-> detail]>>, events |-> <<>>]

\* c.JSON(http.StatusOK, filtered)
writeEvents(filtered) == [status |-> 200, problem |-> <<>>, events |-> <<filtered>>]

\* a router with the events route outside the protected group
HasUserIDUnchecked(req) == TRUE

\* requireUserID lets the request through: c.GetHeader("user-id") != ""
HasUserID(req) == req.userID # ""

\* the handler of GET /v1/events
listEvents(evs, req, forceError) ==
    IF forceError
    THEN writeProblem(500, "Internal Server Error",
                      "An error occurred while processing the request")
    ELSE LET startFilter == parseOptionalTime(req.start)
             endFilter == parseOptionalTime(req.end)
         IN IF startFilter.err
            THEN writeProblem(400, "Bad Request", "invalid start query value, use RFC3339")
            ELSE IF endFilter.err
            THEN writeProblem(400, "Bad Request", "invalid end query value, use RFC3339")
            ELSE IF Len(startFilter.time) = 1 /\ Len(endFilter.time) = 1
                    /\ endFilter.time[1] < startFilter.time[1]
            THEN writeProblem(400, "Bad Request", "end query value cannot be before start")
            ELSE writeEvents(filterEvents(evs, startFilter.time, endFilter.time))

\* NewRouter(events): OPTIONS /v1/events answers 204; GET /v1/events goes
\* through requireUserID to listEvents
ServeHTTP(evs, req, forceError) ==
    IF req.method = "OPTIONS" THEN [status |-> 204, problem |-> <<>>, events |-> <<>>]
    ELSE IF ~HasUserID(req)
    THEN writeProblem(401, "Unauthorized", "API token is missing or invalid")
    ELSE listEvents(evs, req, forceError)

\* the instants a query may name: around evt-1 and evt-2, and the end of evt-3
QueryTimes == {90, 91, 26 * 60 - 1, 27 * 60 + 1, (72 + 52) * 60}

QueryValues == {<<>>, <<"text">>} \cup {<<"rfc3339", t>> : t \in QueryTimes}

Requests ==
    {[method |-> "GET", userID |-> u, start |-> s, end |-> e] :
        u \in {"", "user-123"}, s \in QueryValues, e \in QueryValues}
    \cup {[method |-> "OPTIONS", userID |-> "", start |-> <<>>, end |-> <<>>]}

\* the server is started, with PLANNER_FORCE_EVENTS_ERROR set to 1 or not
InitBackend ==
    /\ \E tz \in TimeZones : dstDay = tz[1] /\ dstDelta = tz[2]
    /\ year = CurrentYear
    /\ weeks = <<>>
    /\ week = RefWeek
    /\ events = <<>>
    /\ allWeekBars = <<>>
    /\ out = NoOutput
    /\ payload = <<>>
    /\ forceEventsError \in BOOLEAN
    /\ request = <<>>
    /\ response = <<>>
    /\ NoClients
    /\ pc = "listening"

\* one request is served
Serve ==
    /\ \E req \in Requests :
           /\ request' = req
           /\ response' = ServeHTTP(seedEvents, req, forceEventsError)
    /\ pc' = "answered"
    /\ UNCHANGED <<dstDay, dstDelta, year, weeks, week, events, allWeekBars, out>>
    /\ UNCHANGED <<payload, forceEventsError>>
    /\ UNCHANGED clientVars

NextBackend == Serve

SpecBackend == InitBackend /\ [][NextBackend]_vars

\* a GET has been answered
AnsweredGet == pc = "answered" /\ request.method = "GET"

AuthenticatedGet == AnsweredGet /\ request.userID # ""

\* the query value is the RFC3339 form of an instant
IsRFC3339(value) == Len(value) = 2 /\ value[1] = "rfc3339"

\* start or end is non-empty and not RFC3339, or both are RFC3339 and end is
\* before start
QueryIsBad ==
    \/ (Len(request.start) # 0 /\ ~IsRFC3339(request.start))
    \/ (Len(request.end) # 0 /\ ~IsRFC3339(request.end))
    \/ (IsRFC3339(request.start) /\ IsRFC3339(request.end)
            /\ request.end[2] < request.start[2])

\* event e does not end before the start asked for, nor start after the end
InRequestedRange(e) ==
    /\ (IsRFC3339(request.start) => ~(e.end < request.start[2]))
    /\ (IsRFC3339(request.end) => ~(e.start > request.end[2]))

\* the answer is 200 with exactly the events in the requested range, in the
\* order of the store (all of them when neither start nor end is given)
AnswersEventsInRange ==
    /\ response.status = 200
    /\ Len(response.problem) = 0
    /\ response.events = <<SelectSeq(seedEvents, InRequestedRange)>>

SpanOf(bar) == bar.endIdx - bar.startIdx

\* C19: of two long events of the week with the same startIdx, the one with
\* the strictly larger span (endIdx - startIdx) has the strictly lower lane.
C19_LongerSpanGetsLowerLane ==
    Rendered =>
        \A a, b \in BarIndexes :
            (/\ allWeekBars[a].startIdx = allWeekBars[b].startIdx
             /\ SpanOf(allWeekBars[a]) > SpanOf(allWeekBars[b]))
                => allWeekBars[a].lane < allWeekBars[b].lane

\* three bars that begin on the same day with three different spans, in
\* lanes 0, 1 and 2 from the longest to the shortest
C19_Witness ==
    /\ Rendered
    /\ \E a, b, c \in BarIndexes :
           /\ allWeekBars[a].startIdx = allWeekBars[b].startIdx
           /\ allWeekBars[b].startIdx = allWeekBars[c].startIdx
           /\ SpanOf(allWeekBars[a]) > SpanOf(allWeekBars[b])
           /\ SpanOf(allWeekBars[b]) > SpanOf(allWeekBars[c])
           /\ allWeekBars[a].lane = 0
           /\ allWeekBars[b].lane = 1
           /\ allWeekBars[c].lane = 2

\* the indexes of weekBars
VisibleIndexes == 1..Len(out.weekBars)

\* the positions 1..7 of the days of the week that every long event of the
\* week shares: none starts after the day and none ends before it
SharedDays ==
    {i \in 1..7 : \A b \in BarIndexes :
        /\ LocalDayOf(allWeekBars[b].event.start) <= LocalDayOf(week[i])
        /\ LocalDayOf(week[i]) <= LocalDayOf(allWeekBars[b].event.end)}

\* the smaller of n and MAX_VISIBLE_BARS
MinOfVisible(n) == IF n < MAX_VISIBLE_BARS THEN n ELSE MAX_VISIBLE_BARS

\* C20: weekBars holds exactly the assigned bars with lane < MAX_VISIBLE_BARS;
\* on every day at most 3 bars of weekBars are active; and when the n long
\* events of the week all share a day they occupy lanes 0..n-1, min(n, 3) of
\* them are in weekBars and the overflow of a shared day is max(0, n - 3).
C20_OnlyThreeLanesAreVisible ==
    Rendered =>
        /\ {out.weekBars[i] : i \in VisibleIndexes}
               = {allWeekBars[b] : b \in {c \in BarIndexes : allWeekBars[c].lane < MAX_VISIBLE_BARS}}
        /\ Len(out.weekBars)
               = Cardinality({c \in BarIndexes : allWeekBars[c].lane < MAX_VISIBLE_BARS})
        /\ \A d \in 0..6 :
               Cardinality({i \in VisibleIndexes : Covers(out.weekBars[i], d)}) <= MAX_VISIBLE_BARS
        /\ (Len(allWeekBars) > 0 /\ SharedDays # {}) =>
               /\ {allWeekBars[b].lane : b \in BarIndexes} = 0..(Len(allWeekBars) - 1)
               /\ Len(out.weekBars) = MinOfVisible(Len(allWeekBars))
               /\ \A i \in SharedDays :
                      out.overflowBarsByDateKey[formatDateKey(week[i])]
                          = (IF Len(allWeekBars) > MAX_VISIBLE_BARS
                             THEN Len(allWeekBars) - MAX_VISIBLE_BARS ELSE 0)

(***************************************************************************)
(* buildWeekRenderData on event lists in any order, with several short     *)
(* events in a day                                                         *)
(***************************************************************************)
MaxShortListLen == 3

\* hours from Monday 00:00 at which these events start, and how long they
\* last: -6 is the Sunday before the week, 18 + 12 crosses midnight, 30
\* hours is long
ShortStartHours == {-6, 0, 6, 18, 30}

ShortDurations == {12, 30}

RECURSIVE ListsUpTo(_, _)
ListsUpTo(shapes, n) ==
    IF n = 0 THEN {<<>>}
    ELSE LET shorter == ListsUpTo(shapes, n - 1)
         IN shorter \cup {Append(l, sh) : l \in {p \in shorter : Len(p) = n - 1}, sh \in shapes}

\* the event lists given to buildWeekRenderData, in the order of the caller
UnsortedEventLists ==
    {EventsOf(l) :
        l \in ListsUpTo({<<RefMonday * DAY_MS + s, RefMonday * DAY_MS + s + d>> :
                            s \in ShortStartHours, d \in ShortDurations}, MaxShortListLen)}

InitShortEvents ==
    /\ \E tz \in TimeZones : dstDay = tz[1] /\ dstDelta = tz[2]
    /\ year = CurrentYear
    /\ weeks = <<>>
    /\ week = RefWeek
    /\ events \in UnsortedEventLists
    /\ allWeekBars = <<>>
    /\ out = NoOutput
    /\ NoSources
    /\ pc = "idle"

SpecShortEvents == InitShortEvents /\ [][RenderWeek]_vars

\* the position of an event in the list given
PositionOf(event) == CHOOSE n \in 1..Len(events) : events[n].id = event.id

\* C21: shortEventsByDateKey has a list for each of the week's 7 date keys and
\* no other key; under the key of a day are exactly the short events that
\* start on that local day, each once and under no other key; each list is
\* by start instant ascending, and events of equal start keep the order they
\* have in the input list.
C21_ShortEventsByStartDay ==
    Rendered =>
        /\ DOMAIN out.shortEventsByDateKey = {formatDateKey(week[i]) : i \in 1..7}
        /\ Cardinality(DOMAIN out.shortEventsByDateKey) = 7
        /\ \A i \in 1..7 :
               LET list == out.shortEventsByDateKey[formatDateKey(week[i])]
                   startingHere == {n \in 1..Len(events) :
                                       /\ events[n].end - events[n].start < DAY_MS
                                       /\ LocalDayOf(events[n].start) = LocalDayOf(week[i])}
               IN /\ Len(list) = Cardinality(startingHere)
                  /\ {list[k] : k \in 1..Len(list)} = {events[n] : n \in startingHere}
                  /\ \A j, k \in 1..Len(list) :
                         j < k =>
                             \/ list[j].start < list[k].start
                             \/ /\ list[j].start = list[k].start
                                /\ PositionOf(list[j]) < PositionOf(list[k])

\* three short events of one day, given as two of one start followed by an
\* earlier one, are listed with the earlier one first and the two in their
\* given order; the third of them crosses midnight
C21_Witness ==
    /\ Rendered
    /\ Len(events) = 3
    /\ events[1].start = events[2].start
    /\ events[3].start < events[1].start
    /\ LocalDayOf(events[1].end) > LocalDayOf(events[1].start)
    /\ out.shortEventsByDateKey[formatDateKey(week[1])] = <<events[3], events[1], events[2]>>

\* the week that precedes wk in buildYearWeeks
WeekBefore(wk) == [dayOffset \in 1..7 |-> addDays(addDays(wk[1], -7), dayOffset - 1)]

\* the bars of the event in a list of bars, by position
BarsIn(bars, event) == {b \in 1..Len(bars) : bars[b].event.id = event.id}

\* bars and following are the bars of two consecutive weeks: an event has a
\* bar that continues to the next week in the first iff it has a bar that
\* continues from the previous week in the second, and then the first ends
\* at index 6 and the second starts at index 0
FlagsAgree(bars, following) ==
    \A n \in 1..Len(events) :
        LET leaving == {b \in BarsIn(bars, events[n]) : bars[b].continuesToNextWeek}
            arriving == {b \in BarsIn(following, events[n]) : following[b].continuesFromPreviousWeek}
        IN /\ (leaving # {}) = (arriving # {})
           /\ \A b \in leaving : bars[b].endIdx = 6
           /\ \A b \in arriving : following[b].startIdx = 0

\* C22: at the boundary of two consecutive weeks of the grid, an event has a
\* placement with continuesToNextWeek in the first week iff it has one with
\* continuesFromPreviousWeek in the second, and then endIdx = 6 in the first
\* and startIdx = 0 in the second.
C22_ContinuationFlagsAgree ==
    Rendered =>
        /\ \A following \in {WeekLayout(WeekAfter(week), events).allWeekBars} :
               FlagsAgree(allWeekBars, following)
        /\ \A preceding \in {WeekLayout(WeekBefore(week), events).allWeekBars} :
               FlagsAgree(preceding, allWeekBars)

\* one event arrives from the week before, another leaves for the week
\* after, and a third ends on the week's Sunday
C22_Witness ==
    /\ Rendered
    /\ \E a, b, c \in BarIndexes :
           /\ allWeekBars[a].continuesFromPreviousWeek
           /\ ~allWeekBars[a].continuesToNextWeek
           /\ allWeekBars[b].continuesToNextWeek
           /\ ~allWeekBars[b].continuesFromPreviousWeek
           /\ allWeekBars[c].endIdx = 6
           /\ ~allWeekBars[c].continuesToNextWeek

\* C23: for every long event and every date of the laid-out week, the date is
\* covered by a bar of the event (startIdx <= day index <= endIdx, hidden
\* lanes included) iff it lies between the event's local start day and local
\* end day inclusive, and no date is covered by two bars of the event.
C23_BarsCoverTheEventsDays ==
    Rendered =>
        \A n \in 1..Len(events) :
            (events[n].end - events[n].start >= DAY_MS) =>
                \A i \in 1..7 :
                    LET covering == {b \in BarsOf(events[n]) : Covers(allWeekBars[b], i - 1)}
                    IN /\ (covering # {}) <=>
                              /\ LocalDayOf(events[n].start) <= LocalDayOf(week[i])
                              /\ LocalDayOf(week[i]) <= LocalDayOf(events[n].end)
                       /\ Cardinality(covering) <= 1

\* C24: daysBetween(a, b) is the number of local calendar days from a's date
\* to b's date, also across a 23-hour or 25-hour day; so the startIdx of a bar
\* that does not continue from the previous week is the column of the event's
\* start day, and the endIdx of a bar that does not continue to the next week
\* is the column of its end day.
C24_DaysBetweenCountsCalendarDays ==
    /\ \A i, j \in 1..7 :
           daysBetween(week[i], week[j]) = LocalDayOf(week[j]) - LocalDayOf(week[i])
    /\ \A n \in 1..Len(events) :
           daysBetween(events[n].start, events[n].end)
               = LocalDayOf(events[n].end) - LocalDayOf(events[n].start)
    /\ \A b \in BarIndexes :
           /\ ~allWeekBars[b].continuesFromPreviousWeek =>
                  LocalDayOf(week[allWeekBars[b].startIdx + 1]) = LocalDayOf(allWeekBars[b].event.start)
           /\ ~allWeekBars[b].continuesToNextWeek =>
                  LocalDayOf(week[allWeekBars[b].endIdx + 1]) = LocalDayOf(allWeekBars[b].event.end)

(***************************************************************************)
(* Google all-day events, from the response to the week's layout           *)
(***************************************************************************)
\* the most dates an all-day event of the model covers
MaxAllDayDates == 3

\* an all-day event as Google sends it: start.date is its first date,
\* end.date the date after its last
AllDayItems(id) ==
    {[id |-> id,
      start |-> <<[dateTime |-> <<>>, date |-> <<<<"date", first>>>>]>>,
      end |-> <<[dateTime |-> <<>>, date |-> <<<<"date", first + dates>>>>]>>] :
        first \in (RefMonday - 1)..(RefMonday + 6), dates \in 1..MaxAllDayDates}

\* the responses tried: none, one or two all-day events
AllDayResponses ==
    {<<>>} \cup {<<a>> : a \in AllDayItems("g1")}
           \cup {<<a, b>> : a \in AllDayItems("g1"), b \in AllDayItems("g2")}

InitAllDay ==
    /\ \E tz \in TimeZones : dstDay = tz[1] /\ dstDelta = tz[2]
    /\ year = CurrentYear
    /\ weeks = <<>>
    /\ week = RefWeek
    /\ events = <<>>
    /\ allWeekBars = <<>>
    /\ out = NoOutput
    /\ NoSources
    /\ pc = "loading"

\* useYearEvents over GoogleCalendarClient; payload keeps the items of the
\* response
LoadAllDayEvents ==
    /\ pc = "loading"
    /\ \E items \in AllDayResponses :
           /\ payload' = items
           /\ events' = sortEventsByTime(ParsedEvents(getEventsForYear(items)))
    /\ pc' = "loaded"
    /\ UNCHANGED <<dstDay, dstDelta, year, weeks, week, allWeekBars, out>>
    /\ UNCHANGED <<forceEventsError, request, response>>
    /\ UNCHANGED clientVars

\* YearPage renders the week with the events loaded
RenderLoadedWeek ==
    /\ pc = "loaded"
    /\ \E frame \in {WeekLayout(week, events)} :
           /\ allWeekBars' = frame.allWeekBars
           /\ out' = frame.out
    /\ pc' = "shown"
    /\ UNCHANGED <<dstDay, dstDelta, year, weeks, week, events>>
    /\ UNCHANGED sourceVars

NextAllDay == LoadAllDayEvents \/ RenderLoadedWeek

SpecAllDay == InitAllDay /\ [][NextAllDay]_vars

\* the first date of an all-day item and the date after its last
FirstDateOf(item) == item.start[1].date[1][2]

EndDateOf(item) == item.end[1].date[1][2]

\* C25: an all-day event of one date D (end.date = D + 1) becomes an event
\* from D 00:00 local to one step before D + 1 00:00, is listed in
\* shortEventsByDateKey[D] and has no bar; an all-day event of n >= 2 dates
\* has a bar that covers exactly those n dates, the end date not included.
C25_AllDayEvents ==
    pc = "shown" =>
        \A k \in 1..Len(payload) :
            LET item == payload[k]
                mapped == {n \in 1..Len(events) : events[n].id = item.id}
            IN /\ Cardinality(mapped) = 1
               /\ \A n \in mapped :
                      /\ events[n].start = MidnightOf(FirstDateOf(item))
                      /\ events[n].end = MidnightOf(EndDateOf(item)) - ALL_DAY_END_BACK
                      /\ IF EndDateOf(item) = FirstDateOf(item) + 1
                         THEN /\ BarsOf(events[n]) = {}
                              /\ \A i \in 1..7 :
                                     (LocalDayOf(week[i]) = FirstDateOf(item)) =>
                                         ShortEntriesOf(events[n]) = {<<formatDateKey(week[i]), p>> :
                                             p \in {q \in 1..Len(out.shortEventsByDateKey[formatDateKey(week[i])]) :
                                                      out.shortEventsByDateKey[formatDateKey(week[i])][q].id = item.id}}
                              /\ (FirstDateOf(item) \in DaysOfWeek) =>
                                     Cardinality(ShortEntriesOf(events[n])) = 1
                         ELSE /\ ShortEntriesOf(events[n]) = {}
                              /\ \A i \in 1..7 :
                                     ({b \in BarsOf(events[n]) : Covers(allWeekBars[b], i - 1)} # {})
                                         <=> /\ FirstDateOf(item) <= LocalDayOf(week[i])
                                             /\ LocalDayOf(week[i]) < EndDateOf(item)

(***************************************************************************)
(* The web useYearEvents hook.  A session is a list of none or one access  *)
(* token; the events of a finished fetch are written as the list of one    *)
(* record naming the year and token they were fetched for.                 *)
(***************************************************************************)
\* the most fetches the hook of the model starts
MaxFetches == 3

\* no session, a session without a token, two sessions
HookSessions == {<<>>, <<"">>, <<"token-1">>, <<"token-2">>}

HookYears == {CurrentYear, CurrentYear + 1}

\* the effect's cleanup: controller.abort() on the fetch of the last effect
AbortFetches(fetches) == {[f EXCEPT !.aborted = TRUE] : f \in fetches}

\* loadEvents after its fetch was rejected with an AbortError: the catch
\* block returns, the finally block runs setLoading(false)
AfterAbortError(h, fetch) == [h EXCEPT !.fetches = h.fetches \ {fetch}, !.loading = FALSE]

\* the effect body for the dependencies [session, year], after the cleanup
\* of the effect before it
RunEffect(h, session, yr) ==
    LET cleaned == [h EXCEPT !.fetches = AbortFetches(h.fetches), !.session = session, !.year = yr]
    IN IF Len(session) = 0
       THEN [cleaned EXCEPT !.events = <<>>, !.loading = FALSE, !.fetchError = <<>>]
       ELSE IF session[1] = ""
       THEN [cleaned EXCEPT !.events = <<>>, !.loading = FALSE,
                            !.fetchError = <<"Google access token is missing. Sign in again.">>]
       ELSE [cleaned EXCEPT !.loading = TRUE, !.fetchError = <<>>,
                            !.started = h.started + 1,
                            !.fetches = AbortFetches(h.fetches) \cup
                                {[id |-> h.started + 1, year |-> yr, token |-> session[1],
                                  aborted |-> FALSE]}]

InitHook ==
    /\ \E tz \in TimeZones : dstDay = tz[1] /\ dstDelta = tz[2]
    /\ year = CurrentYear
    /\ weeks = <<>>
    /\ week = RefWeek
    /\ events = <<>>
    /\ allWeekBars = <<>>
    /\ out = NoOutput
    /\ NoSources
    /\ pc = "unmounted"

hookFrame == <<dstDay, dstDelta, year, weeks, week, events, allWeekBars, out,
               payload, forceEventsError, request, response, viewModel, auth, history>>

\* the component mounts: the effect runs for the first time
MountHook ==
    /\ pc = "unmounted"
    /\ \E session \in HookSessions, yr \in HookYears : hook' = RunEffect(hook, session, yr)
    /\ pc' = "mounted"
    /\ UNCHANGED hookFrame

\* session or year changes: cleanup of the last effect, then the effect again
ChangeSessionOrYear ==
    /\ pc = "mounted"
    /\ hook.started < MaxFetches
    /\ \E session \in HookSessions, yr \in HookYears :
           /\ <<session, yr>> # <<hook.session, hook.year>>
           /\ hook' = RunEffect(hook, session, yr)
    /\ UNCHANGED pc
    /\ UNCHANGED hookFrame

\* getEventsForYear returns: the events are parsed, sorted and set
FetchResolves ==
    /\ \E fetch \in {f \in hook.fetches : ~f.aborted} :
           hook' = [hook EXCEPT !.fetches = hook.fetches \ {fetch},
                                !.events = <<[year |-> fetch.year, token |-> fetch.token]>>,
                                !.loading = FALSE]
    /\ UNCHANGED pc
    /\ UNCHANGED hookFrame

\* getEventsForYear throws (401, a failed request, the network)
FetchRejects ==
    /\ \E fetch \in {f \in hook.fetches : ~f.aborted} :
           hook' = [hook EXCEPT !.fetches = hook.fetches \ {fetch},
                                !.events = <<>>,
                                !.fetchError = <<"Google Calendar request failed">>,
                                !.loading = FALSE]
    /\ UNCHANGED pc
    /\ UNCHANGED hookFrame

\* the fetch of an effect that was cleaned up is rejected with an AbortError
AbortedFetchRejects ==
    /\ \E fetch \in {f \in hook.fetches : f.aborted} : hook' = AfterAbortError(hook, fetch)
    /\ UNCHANGED pc
    /\ UNCHANGED hookFrame

NextHook ==
    \/ MountHook
    \/ ChangeSessionOrYear
    \/ FetchResolves
    \/ FetchRejects
    \/ AbortedFetchRejects

SpecHook == InitHook /\ [][NextHook]_vars

\* C26: whenever a fetch for the current (session, year) is in flight,
\* loading is true; the late completion of an aborted fetch does not set it
\* to false while the newer fetch is still running.
C26_LoadingWhileFetchInFlight ==
    (\E fetch \in hook.fetches :
        /\ ~fetch.aborted
        /\ <<fetch.token>> = hook.session
        /\ fetch.year = hook.year)
        => hook.loading

(***************************************************************************)
(* PlannerViewModel of the Swift app.  Every Task { } runs later on the    *)
(* main actor, in any order with the others; a task is in viewModel.tasks  *)
(* from its creation to its end.  A session is a list of none or one       *)
(* number; the events of a finished fetch are written as the list of one   *)
(* record naming the year and session they were fetched for.               *)
(***************************************************************************)
\* the most tasks the view model of the model creates
MaxTasks == 3

\* the years the user of the model moves between
ViewYears == (CurrentYear - 1)..(CurrentYear + 1)

viewFrame == <<dstDay, dstDelta, year, weeks, week, events, allWeekBars, out, pc,
               payload, forceEventsError, request, response, hook, auth, history>>

\* a task is created
WithTask(vm, kind) ==
    [vm EXCEPT !.started = vm.started + 1,
               !.tasks = vm.tasks \cup {[id |-> vm.started + 1, kind |-> kind,
                                         year |-> 0, session |-> <<>>]}]

\* loadEventsIfAuthenticated: nothing without a session, else Task { await loadEvents() }
loadEventsIfAuthenticated(vm) == IF Len(vm.session) = 0 THEN vm ELSE WithTask(vm, "load")

\* loadEvents up to its await, run by task: without a session events are
\* emptied; with one the fetch for calendarYear begins
loadEvents(vm, task) ==
    IF Len(vm.session) = 0
    THEN [vm EXCEPT !.events = <<>>, !.loadingEvents = FALSE, !.tasks = vm.tasks \ {task}]
    ELSE [vm EXCEPT !.loadingEvents = TRUE, !.fetchError = <<>>,
                    !.tasks = (vm.tasks \ {task}) \cup
                        {[task EXCEPT !.kind = "fetch", !.year = vm.calendarYear,
                                      !.session = vm.session]}]

InitViewModel ==
    /\ \E tz \in TimeZones : dstDay = tz[1] /\ dstDelta = tz[2]
    /\ year = CurrentYear
    /\ weeks = <<>>
    /\ week = RefWeek
    /\ events = <<>>
    /\ allWeekBars = <<>>
    /\ out = NoOutput
    /\ NoSources
    /\ pc = "launched"

moveToPreviousYear ==
    /\ viewModel.calendarYear - 1 \in ViewYears
    /\ viewModel.started < MaxTasks
    /\ viewModel' = loadEventsIfAuthenticated(
           [viewModel EXCEPT !.calendarYear =
               IF viewModel.calendarYear - 1 > MinYear THEN viewModel.calendarYear - 1 ELSE MinYear])
    /\ UNCHANGED viewFrame

moveToNextYear ==
    /\ viewModel.calendarYear + 1 \in ViewYears
    /\ viewModel.started < MaxTasks
    /\ viewModel' = loadEventsIfAuthenticated(
           [viewModel EXCEPT !.calendarYear =
               IF viewModel.calendarYear + 1 < MaxYear THEN viewModel.calendarYear + 1 ELSE MaxYear])
    /\ UNCHANGED viewFrame

jumpToCurrentYear ==
    /\ viewModel.started < MaxTasks
    /\ viewModel' = loadEventsIfAuthenticated([viewModel EXCEPT !.calendarYear = CurrentYear])
    /\ UNCHANGED viewFrame

\* signIn(): Task { await performSignIn() }
signIn ==
    /\ viewModel.started < MaxTasks
    /\ viewModel' = WithTask(viewModel, "signIn")
    /\ UNCHANGED viewFrame

\* signOut(): Task { ... }
signOut ==
    /\ viewModel.started < MaxTasks
    /\ viewModel' = WithTask(viewModel, "signOut")
    /\ UNCHANGED viewFrame

\* performSignIn up to its first await
SignInBegins ==
    /\ \E task \in {t \in viewModel.tasks : t.kind = "signIn"} :
           viewModel' = [viewModel EXCEPT !.authStatus = "loading",
                                          !.tasks = (viewModel.tasks \ {task}) \cup
                                              {[task EXCEPT !.kind = "signingIn"]}]
    /\ UNCHANGED viewFrame

\* oauthService.signIn and fetchUserProfile return: the session is set and
\* loadEvents runs in the same task
SignInSucceeds ==
    /\ \E task \in {t \in viewModel.tasks : t.kind = "signingIn"} :
           viewModel' = loadEvents([viewModel EXCEPT !.session = <<task.id>>,
                                                     !.authStatus = "authenticated"], task)
    /\ UNCHANGED viewFrame

\* oauthService.signIn or fetchUserProfile throws
SignInFails ==
    /\ \E task \in {t \in viewModel.tasks : t.kind = "signingIn"} :
           viewModel' = [viewModel EXCEPT !.session = <<>>,
                                          !.authStatus = "unauthenticated",
                                          !.tasks = viewModel.tasks \ {task}]
    /\ UNCHANGED viewFrame

\* the task of signOut runs
SignOutRuns ==
    /\ \E task \in {t \in viewModel.tasks : t.kind = "signOut"} :
           viewModel' = [viewModel EXCEPT !.session = <<>>,
                                          !.events = <<>>,
                                          !.loadingEvents = FALSE,
                                          !.fetchError = <<>>,
                                          !.authStatus = "unauthenticated",
                                          !.tasks = viewModel.tasks \ {task}]
    /\ UNCHANGED viewFrame

\* the task of loadEventsIfAuthenticated runs loadEvents up to its await
LoadBegins ==
    /\ \E task \in {t \in viewModel.tasks : t.kind = "load"} :
           viewModel' = loadEvents(viewModel, task)
    /\ UNCHANGED viewFrame

\* calendarService.getEventsForYear returns
LoadSucceeds ==
    /\ \E task \in {t \in viewModel.tasks : t.kind = "fetch"} :
           viewModel' = [viewModel EXCEPT !.events = <<[year |-> task.year, session |-> task.session]>>,
                                          !.loadingEvents = FALSE,
                                          !.tasks = viewModel.tasks \ {task}]
    /\ UNCHANGED viewFrame

\* calendarService.getEventsForYear throws
LoadFails ==
    /\ \E task \in {t \in viewModel.tasks : t.kind = "fetch"} :
           viewModel' = [viewModel EXCEPT !.loadingEvents = FALSE,
                                          !.events = <<>>,
                                          !.fetchError = <<"request failed">>,
                                          !.tasks = viewModel.tasks \ {task}]
    /\ UNCHANGED viewFrame

NextViewModel ==
    \/ moveToPreviousYear
    \/ moveToNextYear
    \/ jumpToCurrentYear
    \/ signIn
    \/ signOut
    \/ SignInBegins
    \/ SignInSucceeds
    \/ SignInFails
    \/ SignOutRuns
    \/ LoadBegins
    \/ LoadSucceeds
    \/ LoadFails

SpecViewModel == InitViewModel /\ [][NextViewModel]_vars

\* C27: once no load is in flight, events is empty or the result of the
\* fetch for the displayed calendarYear under the current session; it is
\* empty whenever the user is signed out, and the late result of an older
\* year's fetch never replaces the current year's events.
C27_EventsAreOfTheDisplayedYear ==
    (viewModel.tasks = {}) =>
        /\ \/ viewModel.events = <<>>
           \/ /\ Len(viewModel.session) = 1
              /\ viewModel.events = <<[year |-> viewModel.calendarYear, session |-> viewModel.session]>>
        /\ (Len(viewModel.session) = 0 => viewModel.events = <<>>)

(***************************************************************************)
(* Google OAuth in the browser: googleOAuth.ts and useGoogleAuth.  auth    *)
(* holds what sessionStorage and localStorage keep (session, state,        *)
(* promptMode, error, silentAttempted; hasSignedIn), the number of state   *)
(* tokens generated so far, the number of sessions stored so far, and      *)
(* whether useGoogleAuth holds a session.  A state token is the number of  *)
(* the authorization start that generated it: generateStateToken draws 16  *)
(* random bytes, taken to be new each time.  A fragment parameter is a     *)
(* list of none or one value.  consumeGoogleOAuthRedirectIfPresent has no  *)
(* caller in the sources at hand; it is taken to run when the page loads,  *)
(* before the first effect of useGoogleAuth.                               *)
(***************************************************************************)
\* the most authorization flows started
MaxAuthStarts == 3

SILENT_PROMPT_ERROR_CODES ==
    {"interaction_required", "login_required", "account_selection_required", "consent_required"}

\* the fragments a page may be loaded with: any error, state, access_token
\* and expires_in, present or not; state 0 was never generated
Fragments ==
    [error : {<<>>, <<"">>, <<"login_required">>, <<"access_denied">>},
     state : {<<>>} \cup {<<n>> : n \in 0..MaxAuthStarts},
     accessToken : {<<>>, <<"">>, <<"ya29">>},
     expiresIn : {<<>>, <<"number", 0>>, <<"number", 3600>>, <<"text">>}]

\* Number(params.get('expires_in') ?? '0') is finite and positive
HasPositiveExpiry(fragment) ==
    /\ Len(fragment.expiresIn) = 2
    /\ fragment.expiresIn[1] = "number"
    /\ fragment.expiresIn[2] > 0

\* a clearOAuthState that leaves the state token in place
clearOAuthStateKeepingState(a) == [a EXCEPT !.promptMode = <<>>]

clearOAuthState(a) == [a EXCEPT !.state = <<>>, !.promptMode = <<>>]

clearSession(a) == [a EXCEPT !.session = <<>>]

persistAuthError(a, message) == [a EXCEPT !.error = <<message>>]

\* storeSession, then removeItem(OAUTH_ERROR_KEY) and clearSilentAttempted
storeSession(a, accessToken) ==
    [a EXCEPT !.session = <<[accessToken |-> accessToken, expired |-> FALSE]>>,
              !.hasSignedIn = TRUE,
              !.stores = a.stores + 1,
              !.error = <<>>,
              !.silentAttempted = FALSE]

\* a redirect error that also forgets the silent attempt
AfterRedirectErrorForgetting(a, promptMode, responseError) ==
    [clearSession(a) EXCEPT !.silentAttempted = FALSE]

\* the branch of a non-empty error parameter
AfterRedirectError(a, promptMode, responseError) ==
    IF promptMode = <<"none">> /\ responseError \in SILENT_PROMPT_ERROR_CODES
    THEN clearSession(a)
    ELSE persistAuthError(clearSession(a), "Google sign-in failed")

consumeGoogleOAuthRedirectIfPresent(a, fragment) ==
    IF Len(fragment.accessToken) = 0 /\ Len(fragment.error) = 0 THEN a
    ELSE LET cleared == clearOAuthState(a)
         IN IF Len(fragment.error) = 1 /\ fragment.error[1] # ""
            THEN AfterRedirectError(cleared, a.promptMode, fragment.error[1])
            ELSE IF Len(a.state) = 0 \/ Len(fragment.state) = 0 \/ fragment.state # a.state
            THEN persistAuthError(clearSession(cleared), "invalid OAuth state")
            ELSE IF Len(fragment.accessToken) = 0 \/ fragment.accessToken[1] = ""
                    \/ ~HasPositiveExpiry(fragment)
            THEN persistAuthError(clearSession(cleared), "token response was incomplete")
            ELSE storeSession(cleared, fragment.accessToken[1])

startAuthorizationFlow(a, promptMode) ==
    [a EXCEPT !.state = <<a.issued + 1>>, !.issued = a.issued + 1, !.promptMode = <<promptMode>>]

canAttemptSilentSignIn(a) == a.hasSignedIn /\ ~a.silentAttempted

startSignIn(a) == startAuthorizationFlow([a EXCEPT !.silentAttempted = FALSE], "select_account")

startSilentSignIn(a) ==
    IF ~canAttemptSilentSignIn(a) THEN a
    ELSE startAuthorizationFlow([a EXCEPT !.silentAttempted = TRUE], "none")

\* GoogleOAuthClient.signOut: everything stored is removed
clientSignOut(a) ==
    [a EXCEPT !.session = <<>>, !.hasSignedIn = FALSE, !.silentAttempted = FALSE,
              !.state = <<>>, !.promptMode = <<>>, !.error = <<>>]

\* getSession: a stored session that has expired is cleared
getSession(a) ==
    IF Len(a.session) = 1 /\ a.session[1].expired THEN clearSession(a)
    ELSE IF Len(a.session) = 1 THEN [a EXCEPT !.hasSignedIn = TRUE]
    ELSE a

authFrame == <<dstDay, dstDelta, year, weeks, week, events, allWeekBars, out,
               payload, forceEventsError, request, response, hook, viewModel>>

InitAuth ==
    /\ \E tz \in TimeZones : dstDay = tz[1] /\ dstDelta = tz[2]
    /\ year = CurrentYear
    /\ weeks = <<>>
    /\ week = RefWeek
    /\ events = <<>>
    /\ allWeekBars = <<>>
    /\ out = NoOutput
    /\ NoSources
    /\ pc = "closed"

\* the page is loaded with some fragment (sent by Google, replayed or made
\* up) or none, and the fragment is consumed
LoadPage ==
    /\ pc \in {"closed", "atGoogle", "ready"}
    /\ \E fragment \in Fragments :
           \E consumed \in {consumeGoogleOAuthRedirectIfPresent(auth, fragment)} :
               /\ auth' = [consumed EXCEPT !.active = FALSE]
               /\ history' = IF consumed.stores > auth.stores
                             THEN [signedIn |-> TRUE, silentPending |-> FALSE]
                             ELSE history
    /\ pc' = "loaded"
    /\ UNCHANGED authFrame

\* the first effect of useGoogleAuth: the stored session is taken up, or a
\* silent sign-in is started, or the user stays signed out
InitializeAuthState ==
    /\ pc = "loaded"
    /\ \E current \in {getSession([auth EXCEPT !.error = <<>>])} :
           IF Len(current.session) = 1
           THEN /\ auth' = [current EXCEPT !.active = TRUE]
                /\ pc' = "ready"
                /\ UNCHANGED history
           ELSE IF canAttemptSilentSignIn(current)
           THEN /\ current.issued < MaxAuthStarts
                /\ auth' = startSilentSignIn(current)
                /\ pc' = "atGoogle"
                /\ history' = [history EXCEPT !.silentPending = TRUE]
           ELSE /\ auth' = current
                /\ pc' = "ready"
                /\ UNCHANGED history
    /\ UNCHANGED authFrame

\* getUserProfile fails: client.signOut(activeSession), setSession(null)
ProfileRequestFails ==
    /\ pc = "ready"
    /\ auth.active
    /\ auth' = [clientSignOut(auth) EXCEPT !.active = FALSE]
    /\ history' = [signedIn |-> FALSE, silentPending |-> FALSE]
    /\ UNCHANGED pc
    /\ UNCHANGED authFrame

\* signOut of useGoogleAuth
SignOutOfGoogle ==
    /\ pc = "ready"
    /\ auth' = [clientSignOut(auth) EXCEPT !.active = FALSE]
    /\ history' = [signedIn |-> FALSE, silentPending |-> FALSE]
    /\ UNCHANGED pc
    /\ UNCHANGED authFrame

\* signIn of useGoogleAuth: the interactive flow
SignInWithGoogle ==
    /\ pc = "ready"
    /\ auth.issued < MaxAuthStarts
    /\ auth' = startSignIn(auth)
    /\ history' = [history EXCEPT !.silentPending = FALSE]
    /\ pc' = "atGoogle"
    /\ UNCHANGED authFrame

\* the second effect of useGoogleAuth or its timer: the session is about to
\* expire and a silent sign-in may be attempted
RenewSession ==
    /\ pc = "ready"
    /\ auth.active
    /\ canAttemptSilentSignIn(auth)
    /\ auth.issued < MaxAuthStarts
    /\ auth' = startSilentSignIn(auth)
    /\ history' = [history EXCEPT !.silentPending = TRUE]
    /\ pc' = "atGoogle"
    /\ UNCHANGED authFrame

\* Date.now() passes the session's expiresAt
SessionExpires ==
    /\ Len(auth.session) = 1
    /\ ~auth.session[1].expired
    /\ auth' = [auth EXCEPT !.session = <<[auth.session[1] EXCEPT !.expired = TRUE]>>]
    /\ UNCHANGED <<pc, history>>
    /\ UNCHANGED authFrame

\* the browser session ends: sessionStorage is gone, localStorage stays
NewBrowserSession ==
    /\ pc # "closed"
    /\ auth' = [auth EXCEPT !.session = <<>>, !.state = <<>>, !.promptMode = <<>>,
                            !.error = <<>>, !.silentAttempted = FALSE, !.active = FALSE]
    /\ history' = [history EXCEPT !.silentPending = FALSE]
    /\ pc' = "closed"
    /\ UNCHANGED authFrame

NextAuth ==
    \/ LoadPage
    \/ InitializeAuthState
    \/ ProfileRequestFails
    \/ SignOutOfGoogle
    \/ SignInWithGoogle
    \/ RenewSession
    \/ SessionExpires
    \/ NewBrowserSession

SpecAuth == InitAuth /\ [][NextAuth]_vars

\* the fragment carries what a session is stored for: no error, the state
\* saved by the most recent authorization start, a non-empty access token
\* and a positive expires_in
IsGoodRedirect(fragment) ==
    /\ (Len(fragment.error) = 0 \/ fragment.error = <<"">>)
    /\ Len(auth.state) = 1
    /\ auth.state = <<auth.issued>>
    /\ fragment.state = auth.state
    /\ Len(fragment.accessToken) = 1
    /\ fragment.accessToken[1] # ""
    /\ fragment.expiresIn = <<"number", 3600>>

\* C28: consumeGoogleOAuthRedirectIfPresent stores a session only for a
\* payload with no error, the state saved by the most recent authorization
\* start, a non-empty access token and a positive expires_in; the saved
\* state is removed whenever a payload is consumed, and consuming the same
\* fragment a second time stores no session.
C28_SessionOnlyForTheSavedState ==
    /\ (Len(auth.state) = 1 => auth.state = <<auth.issued>>)
    /\ \A fragment \in Fragments :
           \A once \in {consumeGoogleOAuthRedirectIfPresent(auth, fragment)} :
               /\ (once.stores > auth.stores) <=> IsGoodRedirect(fragment)
               /\ (once.stores = auth.stores) =>
                      (once.session = <<>> \/ once.session = auth.session)
               /\ (Len(fragment.accessToken) = 1 \/ Len(fragment.error) = 1) => once.state = <<>>
               /\ \A twice \in {consumeGoogleOAuthRedirectIfPresent(once, fragment)} :
                      /\ twice.stores = once.stores
                      /\ (once.stores > auth.stores) => twice.session = <<>>

\* a session has been stored for the second authorization started, and the
\* saved state is gone
C28_Witness ==
    /\ pc = "loaded"
    /\ auth.stores = 1
    /\ auth.issued = 2
    /\ Len(auth.session) = 1
    /\ auth.state = <<>>

\* a step that starts a silent (prompt=none) authorization redirect
SilentRedirectStarts == auth'.issued = auth.issued + 1 /\ auth'.promptMode = <<"none">>

\* C29: a silent authorization redirect is started only when no silent
\* redirect was started since the last successful token redirect,
\* interactive sign-in or sign-out of the browser session, and only when a
\* successful sign-in has left the signed-in hint.
C29_SilentSignInOnlyOnce ==
    [][/\ SilentRedirectStarts => (~history.silentPending /\ history.signedIn /\ auth.hasSignedIn)
       /\ auth'.hasSignedIn => history'.signedIn]_vars

\* the third authorization of a browser session is its second silent one
C29_Witness ==
    /\ pc = "atGoogle"
    /\ auth.promptMode = <<"none">>
    /\ auth.issued = 3
    /\ auth.stores = 2
    /\ history.silentPending

====
